---- MODULE Spec2Model ----
(***************************************************************************)
(* Model of the TMDiscord session and scoring engine:                      *)
(*   cogs/game_manager.py     GameSession, GameManager                     *)
(*   cogs/character_loader.py Character                                    *)
(*   cogs/database.py         Database (the durable tables)                *)
(* Every GameManager coroutine runs to completion without yielding to the  *)
(* event loop (the cog getters and the sqlite calls never suspend), so a   *)
(* handler is one atomic action.                                           *)
(***************************************************************************)
EXTENDS Integers, Sequences, FiniteSets, Bags, TLC

VARIABLES active_sessions, user_sessions, next_session_id,
          db_available, db_users, db_games, db_decisions, db_sessions,
          db_feedback, complete_calls, now, loader, pending, ret

vars == <<active_sessions, user_sessions, next_session_id,
          db_available, db_users, db_games, db_decisions, db_sessions,
          db_feedback, complete_calls, now, loader, pending, ret>>

(* ------------------------------ bounds --------------------------------- *)

\* number of session ids (uuid4 values) that can be handed out in a run
MaxSessions == 2
\* number of rows the durable decisions table can hold in a run
MaxDecisionRows == 1
\* the clock stops after this many seconds
MaxTime == 301
\* GameSession.make_decision is not called directly on a session whose
\* current_decision has reached this number
MaxDecisionIndex == 2

\* GameSession.make_decision is called with the current decision number on
\* a session at most this many times after its last decision was answered
MaxExtraAnswers == 1

\* number of rows the durable feedback table can hold in a run
MaxFeedbackRows == 1

\* number of button callbacks that can be suspended at the same time
MaxPending == 1

\* number of entries of a raw decisions mapping whose ordering is examined
MaxRawDecisions == 3

\* seconds that can pass between two handler calls: the timeout exactly, and
\* one second more
TickSteps == {300, 301}

UserIds == {1, 2}
SessionIds == 1..MaxSessions
ChoiceInputs == {"a", "z"}
CharacterInputs == {"solo", "nobody"}
\* the player whose sessions are analysed, and the keys that player picks
AnalysisUser == 1
AnalysisChoices == {"a", "b", "z"}
\* ratings handed to GameManager.record_feedback, and one-character texts
\* typed into the rating field of the feedback modal
RatingInputs == {0, 1, 5, 6}
RatingTexts == {"0", "9", "x"}

(* --------------------------- config.py --------------------------------- *)

GAME_TIMEOUT == 300
MIN_RATING == 1
MAX_RATING == 5

(* ------------------- character_loader.py: Character -------------------- *)

\* The loaded character table (CharacterLoader.characters), holding
\* definitions that pass _validate_character: each entry is the character's
\* sorted_decisions; a choice is its data mapping, which may lack the 'score'
\* key.  "alice" is the two-decision character of the specification's
\* scenarios, "solo" has a single decision with a choice that has no score,
\* "grace" a single decision, "debt" a single decision whose choices all
\* cost points.
Characters ==
  [c \in {"alice", "solo", "grace", "debt"} |->
     CASE c = "alice" ->
            << [choices |-> [k \in {"a", "b"} |->
                               IF k = "a" THEN [score |-> 10]
                                          ELSE [score |-> 4]],
                correct_choice |-> "a"],
               [choices |-> [k \in {"a", "b"} |->
                               IF k = "a" THEN [score |-> 5]
                                          ELSE [score |-> 20]],
                correct_choice |-> "b"] >>
       [] c = "solo" ->
            << [choices |-> [k \in {"a", "b"} |->
                               IF k = "a" THEN [score |-> 7] ELSE [text |-> 0]],
                correct_choice |-> "a"] >>
       [] c = "grace" ->
            << [choices |-> [k \in {"a", "b"} |->
                               IF k = "a" THEN [score |-> 5]
                                          ELSE [score |-> 3]],
                correct_choice |-> "b"] >>
       [] c = "debt" ->
            << [choices |-> [k \in {"a", "b"} |->
                               IF k = "a" THEN [score |-> -2]
                                          ELSE [score |-> -5]],
                correct_choice |-> "a"] >> ]

\* Character.analysis_templates: "alice" has the three tiers, "grace" lacks
\* the 'good' tier and its 'excellent' template has no principles, the
\* others have an empty mapping (which _validate_character only warns about)
analysis_templates ==
  [c \in {"alice", "solo", "grace", "debt"} |->
     CASE c = "alice" ->
            [tier \in {"excellent", "good", "needs_improvement"} |->
               [text |-> tier, principles |-> <<"p1", "p2">>]]
       [] c = "grace" ->
            [tier \in {"excellent", "needs_improvement"} |->
               IF tier = "excellent"
               THEN [text |-> "well done"]
               ELSE [text |-> "try again", principles |-> <<"p3">>]]
       [] OTHER -> <<>> ]

get_character(character_id) ==
  IF character_id \in DOMAIN Characters THEN character_id ELSE "None"

get_total_decisions(character) == Len(Characters[character])

\* Optional[...]: <<>> is None, <<d>> is the decision d
get_decision(character, number) ==
  IF number <= 0 \/ number > Len(Characters[character])
  THEN <<>>
  ELSE <<Characters[character][number]>>

get_choice_score(character, decision_number, choice) ==
  LET decision == get_decision(character, decision_number) IN
    IF decision = <<>> THEN 0
    ELSE IF choice \in DOMAIN decision[1].choices
            /\ "score" \in DOMAIN decision[1].choices[choice]
         THEN decision[1].choices[choice].score
         ELSE 0

is_correct_choice(character, decision_number, choice) ==
  LET decision == get_decision(character, decision_number) IN
    IF decision = <<>> \/ "correct_choice" \notin DOMAIN decision[1]
    THEN FALSE
    ELSE decision[1].correct_choice = choice

\* A score percentage is the exact quotient num / den (den > 0) of the two
\* integers that the code divides as floats; with scores of this size the
\* float comparisons against 80 and 60 agree with the exact ones.
AtLeast(percentage, n) == percentage.num >= n * percentage.den

\* variant: the 'excellent' tier starts above 80, the 'good' tier above 60
character_get_analysisAbove(character, score_percentage) ==
  LET templates == analysis_templates[character]
      get(tier, default) ==
        IF tier \in DOMAIN templates THEN templates[tier] ELSE default
      Above(n) == score_percentage.num > n * score_percentage.den
  IN IF Above(80)
     THEN get("excellent", [text |-> "Excellent performance!",
                            principles |-> <<>>])
     ELSE IF Above(60)
          THEN get("good", [text |-> "Good performance!",
                            principles |-> <<>>])
          ELSE get("needs_improvement", [text |-> "Needs improvement.",
                                         principles |-> <<>>])

\* Character.get_analysis(score_percentage)
character_get_analysis(character, score_percentage) ==
  LET templates == analysis_templates[character]
      get(tier, default) ==
        IF tier \in DOMAIN templates THEN templates[tier] ELSE default
  IN IF AtLeast(score_percentage, 80)
     THEN get("excellent", [text |-> "Excellent performance!",
                            principles |-> <<>>])
     ELSE IF AtLeast(score_percentage, 60)
          THEN get("good", [text |-> "Good performance!",
                            principles |-> <<>>])
          ELSE get("needs_improvement", [text |-> "Needs improvement.",
                                         principles |-> <<>>])

(* --------------------- game_manager.py: GameSession -------------------- *)

\* variant: decisions are counted from 0
NewGameSessionZeroBased(sid, user_id, character, game_id, t) ==
  [id |-> sid, user_id |-> user_id, character |-> character,
   game_id |-> game_id, current_decision |-> 0, total_score |-> 0,
   decisions_made |-> <<>>, last_activity |-> t]

NewGameSession(sid, user_id, character, game_id, t) ==
  [id |-> sid, user_id |-> user_id, character |-> character,
   game_id |-> game_id, current_decision |-> 1, total_score |-> 0,
   decisions_made |-> <<>>, last_activity |-> t]

\* variant: the decision number is not compared with current_decision
SessionMakeDecisionUnchecked(s, decision_number, choice, t) ==
  LET score == get_choice_score(s.character, decision_number, choice) IN
    [session |-> [s EXCEPT
                    !.decisions_made = (decision_number :> choice) @@ @,
                    !.total_score = @ + score,
                    !.current_decision = @ + 1,
                    !.last_activity = t],
     score |-> score]

\* GameSession.make_decision: the session afterwards and the returned score
SessionMakeDecision(s, decision_number, choice, t) ==
  IF decision_number # s.current_decision
  THEN [session |-> s, score |-> 0]
  ELSE LET score == get_choice_score(s.character, decision_number, choice) IN
         [session |-> [s EXCEPT
                         !.decisions_made = (decision_number :> choice) @@ @,
                         !.total_score = @ + score,
                         !.current_decision = @ + 1,
                         !.last_activity = t],
          score |-> score]

is_completed(s) == s.current_decision > get_total_decisions(s.character)

\* the inner loop of get_max_possible_score: the highest score among the
\* choices that have one, counted from 0
highest_score(decision) ==
  LET scores == {decision.choices[k].score :
                   k \in {x \in DOMAIN decision.choices :
                            "score" \in DOMAIN decision.choices[x]}}
      above == {x \in scores : x > 0}
  IN IF above = {} THEN 0
     ELSE CHOOSE x \in above : \A y \in above : y <= x

RECURSIVE MaxScoreUpTo(_, _)
\* the outer loop of get_max_possible_score over decisions 1..n
MaxScoreUpTo(character, n) ==
  IF n = 0 THEN 0
  ELSE LET decision == get_decision(character, n) IN
         MaxScoreUpTo(character, n - 1)
         + (IF decision # <<>> /\ "choices" \in DOMAIN decision[1]
            THEN highest_score(decision[1])
            ELSE 0)

get_max_possible_score(s) ==
  MaxScoreUpTo(s.character, get_total_decisions(s.character))

get_score_percentage(s) ==
  LET max_score == get_max_possible_score(s) IN
    IF max_score = 0 THEN [num |-> 0, den |-> 1]
    ELSE [num |-> s.total_score * 100, den |-> max_score]

\* GameSession.get_analysis
get_analysis(s) ==
  LET score_percentage == get_score_percentage(s)
      analysis_template == character_get_analysis(s.character, score_percentage)
      correct_decisions ==
        Cardinality({n \in DOMAIN s.decisions_made :
                       is_correct_choice(s.character, n, s.decisions_made[n])})
      total_decisions == get_total_decisions(s.character)
  IN [text |-> IF "text" \in DOMAIN analysis_template
               THEN analysis_template.text ELSE "",
      principles |-> IF "principles" \in DOMAIN analysis_template
                     THEN analysis_template.principles ELSE <<>>,
      score |-> s.total_score,
      max_score |-> get_max_possible_score(s),
      percentage |-> score_percentage,
      correct_decisions |-> correct_decisions,
      total_decisions |-> total_decisions,
      accuracy |-> IF total_decisions > 0
                   THEN [num |-> correct_decisions * 100,
                         den |-> total_decisions]
                   ELSE [num |-> 0, den |-> 1]]

(* --------------------------- database.py ------------------------------- *)

\* The state the handlers read and write, as one record: the two GameManager
\* tables, the uuid source, and the durable tables.
World ==
  [active_sessions |-> active_sessions, user_sessions |-> user_sessions,
   next_session_id |-> next_session_id,
   db_users |-> db_users, db_games |-> db_games,
   db_decisions |-> db_decisions, db_sessions |-> db_sessions,
   db_feedback |-> db_feedback, complete_calls |-> complete_calls]

Without(f, k) == [x \in DOMAIN f \ {k} |-> f[x]]

get_or_create_user(w, user_id) ==
  IF user_id \in DOMAIN w.db_users THEN w
  ELSE [w EXCEPT !.db_users =
          (user_id :> [games_played |-> 0, total_score |-> 0]) @@ @]

\* the new row's id is lastrowid = the number of rows (AUTOINCREMENT)
create_game(w, user_id, character_id) ==
  [w EXCEPT
     !.db_games = Append(@, [user_id |-> user_id, character_id |-> character_id,
                             total_score |-> 0, completed |-> FALSE]),
     !.db_users = [u \in DOMAIN @ |->
                     IF u = user_id
                     THEN [@[u] EXCEPT !.games_played = @ + 1]
                     ELSE @[u]]]

\* variant: no durable session row is written
db_create_sessionSkipped(w, session_id, user_id, game_id, t) == w

\* variant: the rows that the user already has are kept
db_create_sessionKeeping(w, session_id, user_id, game_id, t) ==
  [w EXCEPT !.db_sessions =
     (session_id :> [user_id |-> user_id, game_id |-> game_id,
                     last_activity |-> t]) @@ @]

db_create_session(w, session_id, user_id, game_id, t) ==
  LET kept == {x \in DOMAIN w.db_sessions : w.db_sessions[x].user_id # user_id}
  IN [w EXCEPT !.db_sessions =
        (session_id :> [user_id |-> user_id, game_id |-> game_id,
                        last_activity |-> t])
        @@ [x \in kept |-> w.db_sessions[x]]]

db_update_session_activity(w, session_id, t) ==
  IF session_id \in DOMAIN w.db_sessions
  THEN [w EXCEPT !.db_sessions[session_id].last_activity = t]
  ELSE w

\* variant: the durable row is left in place
db_end_sessionKeepRow(w, session_id) == w

db_end_session(w, session_id) ==
  [w EXCEPT !.db_sessions = Without(@, session_id)]

\* the decisions table is a bag of rows: the decision_id and timestamp
\* columns, which nothing reads, are left out
record_decision(w, game_id, decision_number, choice, score) ==
  [w EXCEPT
     !.db_decisions = @ (+) SetToBag({[game_id |-> game_id,
                                       decision_number |-> decision_number,
                                       choice_made |-> choice,
                                       score |-> score]}),
     !.db_games[game_id].total_score = @ + score]

\* the feedback table is a bag of rows: the feedback_id, comments and
\* timestamp columns, which nothing reads, are left out
db_record_feedback(w, game_id, rating) ==
  [w EXCEPT !.db_feedback =
     @ (+) SetToBag({[game_id |-> game_id, rating |-> rating]})]

\* complete_calls counts the calls per game id
complete_game(w, game_id) ==
  LET game == w.db_games[game_id] IN
    [w EXCEPT
       !.db_games[game_id].completed = TRUE,
       !.db_users[game.user_id].total_score = @ + game.total_score,
       !.complete_calls[game_id] = @ + 1]

(* --------------------- game_manager.py: GameManager -------------------- *)

\* variant: the number the session is at is passed
DecisionNumberPassedCurrent(s) == s.current_decision

\* the decision number GameManager.make_decision hands to the session
DecisionNumberPassed(s) == s.current_decision - 1

\* variant: the user association is dropped but the session stays in the table
RemoveSessionKeepEntry(w, session_id) ==
  LET session == w.active_sessions[session_id] IN
    [w EXCEPT
       !.user_sessions =
          IF session.user_id \in DOMAIN @ /\ @[session.user_id] = session_id
          THEN Without(@, session.user_id)
          ELSE @]

\* the tail of end_game_session: drop the user association, drop the session
\* variant: the session is deleted and the mapping of its user is left
RemoveSessionKeepMapping(w, session_id) ==
  [w EXCEPT !.active_sessions = Without(@, session_id)]

RemoveSession(w, session_id) ==
  LET session == w.active_sessions[session_id] IN
    [w EXCEPT
       !.user_sessions =
          IF session.user_id \in DOMAIN @ /\ @[session.user_id] = session_id
          THEN Without(@, session.user_id)
          ELSE @,
       !.active_sessions = Without(@, session_id)]

\* variant: the completed argument is ignored, the game is never completed
end_game_sessionNeverCompleting(w, session_id, completed) ==
  IF session_id \notin DOMAIN w.active_sessions THEN w
  ELSE RemoveSession(db_end_session(w, session_id), session_id)

\* end_game_session with the Database cog present
end_game_session(w, session_id, completed) ==
  IF session_id \notin DOMAIN w.active_sessions THEN w
  ELSE LET session == w.active_sessions[session_id]
           w1 == IF completed /\ ~is_completed(session)
                 THEN complete_game(w, session.game_id)
                 ELSE w
           w2 == db_end_session(w1, session_id)
       IN RemoveSession(w2, session_id)

\* variant: the prior session is left alone
SupersedePriorSkip(w, user_id) == w

\* variant: the prior session is ended with the default completed=True
SupersedePriorCompleting(w, user_id) ==
  IF user_id \in DOMAIN w.user_sessions
     /\ w.user_sessions[user_id] \in DOMAIN w.active_sessions
  THEN end_game_session(w, w.user_sessions[user_id], TRUE)
  ELSE w

\* "If user already has a session, end it"
SupersedePrior(w, user_id) ==
  IF user_id \in DOMAIN w.user_sessions
     /\ w.user_sessions[user_id] \in DOMAIN w.active_sessions
  THEN end_game_session(w, w.user_sessions[user_id], FALSE)
  ELSE w

\* variant: the user's prior session is ended before the character and the
\* Database cog are looked up
create_game_sessionEndingFirst(w, db, user_id, character_id, t) ==
  LET character == get_character(character_id)
      w0 == SupersedePrior(w, user_id)
  IN
    IF character = "None" \/ ~db
    THEN [w |-> w0, session_id |-> 0]
    ELSE LET w1 == get_or_create_user(w0, user_id)
             w2 == create_game(w1, user_id, character_id)
             game_id == Len(w2.db_games)
             sid == w.next_session_id
             session == NewGameSession(sid, user_id, character, game_id, t)
             w3 == [w2 EXCEPT !.next_session_id = @ + 1,
                              !.active_sessions = (sid :> session) @@ @]
             w5 == [w3 EXCEPT !.user_sessions =
                      (user_id :> sid) @@ Without(@, user_id)]
             w6 == db_create_session(w5, sid, user_id, game_id, t)
         IN [w |-> w6, session_id |-> sid]

\* create_game_session: the world afterwards and the id of the session
\* returned (0 for None)
create_game_session(w, db, user_id, character_id, t) ==
  LET character == get_character(character_id) IN
    IF character = "None" \/ ~db
    THEN [w |-> w, session_id |-> 0]
    ELSE LET w1 == get_or_create_user(w, user_id)
             w2 == create_game(w1, user_id, character_id)
             game_id == Len(w2.db_games)
             sid == w.next_session_id
             session == NewGameSession(sid, user_id, character, game_id, t)
             w3 == [w2 EXCEPT !.next_session_id = @ + 1,
                              !.active_sessions = (sid :> session) @@ @]
             w4 == SupersedePrior(w3, user_id)
             w5 == [w4 EXCEPT !.user_sessions =
                      (user_id :> sid) @@ Without(@, user_id)]
             w6 == db_create_session(w5, sid, user_id, game_id, t)
         IN [w |-> w6, session_id |-> sid]

\* make_decision: the world afterwards and the returned (score, is_completed)
\* variant: the session answers its current decision and nothing is written
\* to the database
make_decisionUnrecorded(w, db, session_id, choice, t) ==
  IF session_id \notin DOMAIN w.active_sessions \/ ~db
  THEN [w |-> w, score |-> 0, completed |-> FALSE]
  ELSE LET session == w.active_sessions[session_id]
           r == SessionMakeDecision(session, session.current_decision,
                                    choice, t)
       IN [w |-> [w EXCEPT !.active_sessions[session_id] = r.session],
           score |-> r.score, completed |-> is_completed(r.session)]

make_decision(w, db, session_id, choice, t) ==
  IF session_id \notin DOMAIN w.active_sessions \/ ~db
  THEN [w |-> w, score |-> 0, completed |-> FALSE]
  ELSE LET session == w.active_sessions[session_id]
           r == SessionMakeDecision(session, DecisionNumberPassed(session),
                                    choice, t)
           w1 == [w EXCEPT !.active_sessions[session_id] = r.session]
           w2 == record_decision(w1, r.session.game_id,
                                 r.session.current_decision - 1, choice, r.score)
           w3 == db_update_session_activity(w2, session_id, t)
           done == is_completed(r.session)
           w4 == IF done THEN complete_game(w3, r.session.game_id) ELSE w3
       IN [w |-> w4, score |-> r.score, completed |-> done]

\* variant: the feedback row is written twice
record_feedbackTwice(w, db, session_id, rating) ==
  IF session_id \notin DOMAIN w.active_sessions \/ ~db
  THEN [w |-> w, ok |-> FALSE]
  ELSE LET game_id == w.active_sessions[session_id].game_id IN
         [w |-> db_record_feedback(db_record_feedback(w, game_id, rating),
                                   game_id, rating),
          ok |-> TRUE]

\* GameManager.record_feedback: the world afterwards and the returned flag
record_feedback(w, db, session_id, rating) ==
  IF session_id \notin DOMAIN w.active_sessions \/ ~db
  THEN [w |-> w, ok |-> FALSE]
  ELSE [w |-> db_record_feedback(w, w.active_sessions[session_id].game_id,
                                 rating),
        ok |-> TRUE]

\* int(text) for a one-character text: <<>> stands for ValueError
int(text) ==
  LET digits == <<"0", "1", "2", "3", "4", "5", "6", "7", "8", "9">> IN
    IF \E i \in DOMAIN digits : digits[i] = text
    THEN <<(CHOOSE i \in DOMAIN digits : digits[i] = text) - 1>>
    ELSE <<>>

\* the rating FeedbackModal.on_submit derives from the text of its field
rating_value(text) ==
  LET parsed == int(text)
      min(a, b) == IF a <= b THEN a ELSE b
      max(a, b) == IF a >= b THEN a ELSE b
  IN IF parsed = <<>> THEN 3 ELSE max(1, min(5, parsed[1]))

\* variant: a session idle for exactly the timeout counts as inactive
IsInactiveAtTimeout(s, t) == t - s.last_activity >= GAME_TIMEOUT

\* the reaper's test on one session
IsInactive(s, t) == t - s.last_activity > GAME_TIMEOUT

sessions_to_remove(w, t) ==
  {sid \in DOMAIN w.active_sessions : IsInactive(w.active_sessions[sid], t)}

RECURSIVE EndEach(_, _)
\* the reaper's second loop, in the order of the session table
EndEach(w, sids) ==
  IF sids = {} THEN w
  ELSE LET sid == CHOOSE x \in sids : \A y \in sids : x <= y
       IN EndEach(end_game_session(w, sid, FALSE), sids \ {sid})

\* GameManager.cleanup_old_sessions; without the Database cog
\* end_game_session returns before removing anything
cleanup_old_sessions(w, db, t) ==
  IF db THEN EndEach(w, sessions_to_remove(w, t)) ELSE w

\* Database.cleanup_old_sessions: delete the durable session rows whose
\* last_activity is older than the timeout
db_cleanup_old_sessions(w, t) ==
  LET old == {x \in DOMAIN w.db_sessions :
                t - w.db_sessions[x].last_activity > GAME_TIMEOUT}
  IN [w EXCEPT !.db_sessions = [x \in DOMAIN @ \ old |-> @[x]]]

\* variant: the mapping of the user is dropped whatever it points to
get_user_sessionDropping(w, user_id) ==
  IF user_id \notin DOMAIN w.user_sessions
  THEN [w |-> w, session |-> <<>>]
  ELSE [w |-> [w EXCEPT !.user_sessions = Without(@, user_id)],
        session |-> IF w.user_sessions[user_id] \in DOMAIN w.active_sessions
                    THEN <<w.active_sessions[w.user_sessions[user_id]]>>
                    ELSE <<>>]

\* GameManager.get_user_session: the world afterwards and the session
\* returned, <<>> standing for None
get_user_session(w, user_id) ==
  IF user_id \notin DOMAIN w.user_sessions
  THEN [w |-> w, session |-> <<>>]
  ELSE LET session_id == w.user_sessions[user_id] IN
         IF session_id \notin DOMAIN w.active_sessions
         THEN [w |-> [w EXCEPT !.user_sessions = Without(@, user_id)],
               session |-> <<>>]
         ELSE [w |-> w, session |-> <<w.active_sessions[session_id]>>]

\* What user.send does for one expired session of a sweep: the message is
\* sent, discord.errors.Forbidden is raised, or another exception is raised
\* (discord.HTTPException when the request fails).
SendOutcomes == {"sent", "forbidden", "failed"}

\* the durable session rows that Database.cleanup_old_sessions selects
db_old_sessions(w, t) ==
  {x \in DOMAIN w.db_sessions :
     t - w.db_sessions[x].last_activity > GAME_TIMEOUT}

\* the orders in which fetchall can list the selected rows
FetchOrders(old) ==
  {order \in [1..Cardinality(old) -> old] :
     \A i, j \in DOMAIN order : order[i] = order[j] => i = j}

RECURSIVE db_cleanup_each(_, _, _)
\* The loop of Database.cleanup_old_sessions over the selected rows: each is
\* ended, then its user is notified.  Forbidden is caught inside the loop;
\* any other exception leaves the loop for the handler around the whole body.
db_cleanup_each(w, order, outcome) ==
  IF order = <<>> THEN w
  ELSE LET w1 == db_end_session(w, order[1]) IN
         IF outcome[order[1]] = "failed" THEN w1
         ELSE db_cleanup_each(w1, Tail(order), outcome)

(* ------------------ user_interface.py: DecisionView -------------------- *)

\* the buttons of a decision view that are pressed
ButtonChoices == {"a"}

\* variant: the callback goes on with the session it looked up before it
\* was suspended
resume_callbackOnCaptured(w, db, p, t) ==
  IF p.sid \notin DOMAIN w.active_sessions /\ db
  THEN [w |-> record_decision(w, p.game_id, 0, p.choice, 0),
        score |-> 0, completed |-> FALSE]
  ELSE make_decision(w, db, p.sid, p.choice, t)

\* the callback of a choice button once edit_message has returned: it calls
\* make_decision with the id of its view, which looks the session up again
resume_callback(w, db, p, t) ==
  make_decision(w, db, p.sid, p.choice, t)

\* the users that one reaper sweep tries to notify while it ends the
\* selected sessions in turn: the owner of a session that is still live
\* after its end_game_session call
RECURSIVE NotifyEach(_, _, _)
NotifyEach(w, db, sids) ==
  IF sids = {} THEN {}
  ELSE LET sid == CHOOSE x \in sids : \A y \in sids : x <= y
           w1 == IF db THEN end_game_session(w, sid, FALSE) ELSE w
       IN (IF sid \in DOMAIN w1.active_sessions
           THEN {w1.active_sessions[sid].user_id}
           ELSE {})
          \cup NotifyEach(w1, db, sids \ {sid})

(* ------ character_loader.py: CharacterLoader; utils/yaml_parser.py ----- *)

REQUIRED_CHARACTER_FIELDS ==
  {"name", "title", "starting_year", "initial_capital", "key_principles",
   "decisions", "analysis_templates"}

REQUIRED_DECISION_FIELDS ==
  {"year", "context", "question", "choices", "correct_choice"}

\* A parsed character document is a mapping from field names to values.  Its
\* 'decisions' mapping keeps the order of the file: it is the sequence of its
\* (key, decision) items, a key being written as str(key).
SampleDecision(choices, correct_choice) ==
  [year |-> 1990, context |-> "c", question |-> "q", choices |-> choices,
   correct_choice |-> correct_choice]

SampleChoices ==
  [k \in {"a", "b"} |-> IF k = "a" THEN [text |-> "t", score |-> 10]
                                   ELSE [text |-> "t", score |-> 4]]

SampleDocument(decisions, templates) ==
  [name |-> "n", title |-> "t", starting_year |-> 1990,
   initial_capital |-> 100, key_principles |-> <<"p">>,
   decisions |-> decisions, analysis_templates |-> templates]

SampleTemplates ==
  [tier \in {"excellent"} |-> [text |-> "e", principles |-> <<"p">>]]

\* The documents that the files of the characters directory can hold.
Documents ==
  LET d1 == SampleDecision(SampleChoices, "a")
      d2 == SampleDecision(SampleChoices, "b")
      Drop(f, k) == [x \in DOMAIN f \ {k} |-> f[x]]
      valid == SampleDocument(<< <<"2", d2>>, <<"1", d1>> >>, SampleTemplates)
  IN [n \in {"valid", "plain", "no_templates", "no_name", "no_decisions",
             "no_question", "no_choices", "bad_correct"} |->
        CASE n = "valid" -> valid
          [] n = "plain" ->
               SampleDocument(<< <<"x", d1>>, <<"b", d2>> >>, <<>>)
          [] n = "no_templates" -> Drop(valid, "analysis_templates")
          [] n = "no_name" -> Drop(valid, "name")
          [] n = "no_decisions" -> SampleDocument(<<>>, SampleTemplates)
          [] n = "no_question" ->
               SampleDocument(<< <<"1", Drop(d1, "question")>> >>,
                              SampleTemplates)
          [] n = "no_choices" ->
               SampleDocument(<< <<"1", SampleDecision(<<>>, "a")>> >>,
                              SampleTemplates)
          [] n = "bad_correct" ->
               SampleDocument(<< <<"1", d1>>,
                                 <<"2", SampleDecision(SampleChoices, "c")>> >>,
                              SampleTemplates)]

\* What a file holds: a YAML document with the given data, an empty file
\* (which yaml.safe_load reads as None), or text that is not YAML.
FileContents ==
  {[kind |-> "doc", data |-> Documents[n]] : n \in DOMAIN Documents}
  \cup {[kind |-> "null"], [kind |-> "unparsable"]}

\* the files that can appear in the characters directory, and what each can
\* hold
FileNames ==
  {[stem |-> "a", ext |-> "yml"], [stem |-> "a", ext |-> "yaml"],
   [stem |-> "b", ext |-> "yml"], [stem |-> "notes", ext |-> "txt"]}

FileInputs ==
  {<<f, c>> \in FileNames \X FileContents :
     \/ f.stem = "b" /\ f.ext = "yml"
     \/ f.stem = "a" /\ c \in {[kind |-> "doc", data |-> Documents["valid"]],
                               [kind |-> "doc", data |-> Documents["plain"]],
                               [kind |-> "doc",
                                data |-> Documents["bad_correct"]]}
     \/ f.ext = "txt" /\ c = [kind |-> "doc", data |-> Documents["valid"]]}

\* yaml.safe_load of a file: raised is TRUE when it throws; data is <<>> for
\* None and <<d>> for the mapping d
safe_load(content) ==
  CASE content.kind = "unparsable" -> [raised |-> TRUE, data |-> <<>>]
    [] content.kind = "null" -> [raised |-> FALSE, data |-> <<>>]
    [] OTHER -> [raised |-> FALSE, data |-> <<content.data>>]

\* the order of str keys under sort_keys=True
KeyRank(key) ==
  CASE key = "1" -> 1 [] key = "2" -> 2 [] key = "b" -> 3 [] OTHER -> 4

\* variant: a key that is not a number sorts after the numbers
DecisionSortKeyLast(key) ==
  IF int(key) # <<>> THEN int(key)[1] ELSE 10

\* the key of Character.__init__'s sort
DecisionSortKey(key) ==
  IF int(key) # <<>> THEN int(key)[1] ELSE 0

\* the rank of a key under one of the two orders
Rank(by, key) ==
  IF by = "key" THEN KeyRank(key) ELSE DecisionSortKey(key)

RECURSIVE InsertItem(_, _, _)
\* insert an item after the items of the sorted sequence whose rank is not
\* greater (the sort is stable)
InsertItem(sorted, item, by) ==
  IF sorted = <<>> THEN <<item>>
  ELSE IF Rank(by, sorted[Len(sorted)][1]) <= Rank(by, item[1])
       THEN Append(sorted, item)
       ELSE Append(InsertItem(SubSeq(sorted, 1, Len(sorted) - 1), item, by),
                   sorted[Len(sorted)])

RECURSIVE SortItems(_, _)
\* sorted(items, key=...)
SortItems(items, by) ==
  IF items = <<>> THEN <<>>
  ELSE InsertItem(SortItems(SubSeq(items, 1, Len(items) - 1), by),
                  items[Len(items)], by)

\* yaml.dump(data, default_flow_style=False, sort_keys=...): the document
\* written lists the items of a mapping in insertion order, or by key
yaml_dump(data, sort_keys) ==
  [kind |-> "doc",
   data |-> IF sort_keys
            THEN [data EXCEPT !.decisions = SortItems(@, "key")]
            ELSE data]

\* Character(character_id, data) for data that has every required field
Character(character_id, data) ==
  [id |-> character_id, name |-> data.name, title |-> data.title,
   starting_year |-> data.starting_year,
   initial_capital |-> data.initial_capital,
   key_principles |-> data.key_principles,
   decisions |-> data.decisions,
   analysis_templates |-> data.analysis_templates,
   sorted_decisions |-> SortItems(data.decisions, "decision")]

\* Character.get_total_decisions
character_get_total_decisions(c) == Len(c.sorted_decisions)

\* Character.get_decision: <<>> stands for None
character_get_decision(c, number) ==
  IF number <= 0 \/ number > Len(c.sorted_decisions) THEN <<>>
  ELSE <<c.sorted_decisions[number][2]>>

\* variant: the correct choice of a decision is not looked up
validate_characterAnyCorrect(data) ==
  /\ \A field \in REQUIRED_CHARACTER_FIELDS : field \in DOMAIN data
  /\ data.decisions # <<>>
  /\ \A i \in DOMAIN data.decisions :
       LET decision == data.decisions[i][2] IN
         /\ \A field \in REQUIRED_DECISION_FIELDS : field \in DOMAIN decision
         /\ DOMAIN decision.choices # {}

\* CharacterLoader._validate_character on a mapping
validate_character(data) ==
  /\ \A field \in REQUIRED_CHARACTER_FIELDS : field \in DOMAIN data
  /\ data.decisions # <<>>
  /\ \A i \in DOMAIN data.decisions :
       LET decision == data.decisions[i][2] IN
         /\ \A field \in REQUIRED_DECISION_FIELDS : field \in DOMAIN decision
         /\ DOMAIN decision.choices # {}
         /\ decision.correct_choice \in DOMAIN decision.choices

\* yaml_parser.validate_character_data, the same checks
validate_character_data(data) ==
  /\ \A field \in REQUIRED_CHARACTER_FIELDS : field \in DOMAIN data
  /\ data.decisions # <<>>
  /\ \A i \in DOMAIN data.decisions :
       LET decision == data.decisions[i][2] IN
         /\ \A field \in REQUIRED_DECISION_FIELDS : field \in DOMAIN decision
         /\ DOMAIN decision.choices # {}
         /\ decision.correct_choice \in DOMAIN decision.choices

\* os.listdir filtered by the two suffixes, in any order
ListedOrders(ld) ==
  LET files == {f \in DOMAIN ld.files : f.ext = "yml" \/ f.ext = "yaml"}
      n == Cardinality(files)
  IN {order \in [1..n -> files] :
        \A i, j \in 1..n : order[i] = order[j] => i = j}

\* the body of the loading loop for one file: an exception (from the parser,
\* or from validating None) is logged and the file skipped
LoadFile(characters, file, content) ==
  LET loaded == safe_load(content) IN
    IF loaded.raised \/ loaded.data = <<>> THEN characters
    ELSE IF validate_character(loaded.data[1])
         THEN (file.stem :> Character(file.stem, loaded.data[1]))
              @@ characters
         ELSE characters

RECURSIVE LoadEachStopping(_, _, _)
\* variant: the loop ends at the first file that is not loaded
LoadEachStopping(characters, ld, order) ==
  IF order = <<>> THEN characters
  ELSE LET next == LoadFile(characters, order[1], ld.files[order[1]]) IN
         IF next = characters /\ order[1].stem \notin DOMAIN characters
         THEN characters
         ELSE LoadEachStopping(next, ld, Tail(order))

RECURSIVE LoadEach(_, _, _)
LoadEach(characters, ld, order) ==
  IF order = <<>> THEN characters
  ELSE LoadEach(LoadFile(characters, order[1], ld.files[order[1]]),
                ld, Tail(order))

\* CharacterLoader._load_all_characters with the directory listed in the
\* given order: the table is cleared first, then filled
load_all_characters(ld, order) ==
  LET cleared == [ld EXCEPT !.characters = <<>>] IN
    IF ~ld.exists THEN cleared
    ELSE [cleared EXCEPT !.characters = LoadEach(<<>>, ld, order)]

\* CharacterLoader.get_character
loader_get_character(ld, character_id) ==
  IF character_id \in DOMAIN ld.characters
  THEN <<ld.characters[character_id]>>
  ELSE <<>>

\* yaml_parser.save_character_file: open() fails when the directory is
\* missing
save_character_file(ld, character_id, data) ==
  IF ~validate_character_data(data) \/ ~ld.exists
  THEN [ld |-> ld, ok |-> FALSE]
  ELSE [ld |-> [ld EXCEPT !.files =
                  ([stem |-> character_id, ext |-> "yml"]
                     :> yaml_dump(data, FALSE)) @@ @],
        ok |-> TRUE]

(* ----------------------------- the system ------------------------------ *)

\* what the latest handler call was (op, the session id it was given or
\* returned), whether it got past its early returns (ok), the score and
\* completion flag it returned, and the session ids that it took out of the
\* live table
Ret(op, sid, ok, score, completed, w) ==
  [op |-> op, sid |-> sid, ok |-> ok, score |-> score,
   completed |-> completed,
   removed |-> DOMAIN active_sessions \ DOMAIN w.active_sessions]

Apply(w) ==
  /\ active_sessions' = w.active_sessions
  /\ user_sessions' = w.user_sessions
  /\ next_session_id' = w.next_session_id
  /\ db_users' = w.db_users
  /\ db_games' = w.db_games
  /\ db_decisions' = w.db_decisions
  /\ db_sessions' = w.db_sessions
  /\ db_feedback' = w.db_feedback
  /\ complete_calls' = w.complete_calls

\* the state after the cogs are constructed, on an empty database; the
\* Database cog may have failed to load (main.py load_cogs logs and goes on)
Init ==
  /\ active_sessions = <<>>
  /\ user_sessions = <<>>
  /\ next_session_id = 1
  /\ db_available \in BOOLEAN
  /\ db_users = <<>>
  /\ db_games = <<>>
  /\ db_decisions = EmptyBag
  /\ db_sessions = <<>>
  /\ db_feedback = EmptyBag
  /\ complete_calls = [g \in SessionIds |-> 0]
  /\ now = 0
  /\ loader = [exists |-> TRUE, files |-> <<>>, characters |-> <<>>]
  /\ pending = {}
  /\ ret = [op |-> "init", sid |-> 0, ok |-> FALSE, score |-> 0,
           completed |-> FALSE, removed |-> {}]

\* time passes between two handler calls
Tick ==
  \E d \in TickSteps :
    /\ now + d <= MaxTime
    /\ now' = now + d
    /\ ret' = Ret("tick", 0, FALSE, 0, FALSE, World)
    /\ UNCHANGED <<active_sessions, user_sessions, next_session_id,
                   db_available, db_users, db_games, db_decisions,
                   db_sessions, db_feedback, complete_calls, loader, pending>>

\* GameManager.create_game_session(user_id, character_id, channel_id)
StartSession(user_id, character_id) ==
  LET r == create_game_session(World, db_available, user_id, character_id, now)
  IN /\ r.session_id = 0 \/ next_session_id <= MaxSessions
     /\ Apply(r.w)
     /\ ret' = Ret("start", r.session_id, r.session_id # 0, 0, FALSE, r.w)
     /\ UNCHANGED <<db_available, now, loader, pending>>

\* GameManager.make_decision(session_id, choice)
MakeDecision(session_id, choice) ==
  LET found == session_id \in DOMAIN active_sessions /\ db_available
      r == make_decision(World, db_available, session_id, choice, now)
  IN /\ found => BagCardinality(db_decisions) < MaxDecisionRows
     /\ Apply(r.w)
     /\ ret' = Ret("advance", session_id, found, r.score, r.completed, r.w)
     /\ UNCHANGED <<db_available, now, loader, pending>>

\* GameManager.end_game_session(session_id, completed)
EndSession(session_id, completed) ==
  LET found == session_id \in DOMAIN active_sessions /\ db_available
      w == IF db_available
           THEN end_game_session(World, session_id, completed)
           ELSE World
  IN /\ Apply(w)
     /\ ret' = Ret("end", session_id, found, 0, FALSE, w)
     /\ UNCHANGED <<db_available, now, loader, pending>>

\* one run of the GameManager.cleanup_old_sessions loop
ReaperSweep ==
  /\ Apply(cleanup_old_sessions(World, db_available, now))
  /\ ret' = Ret("sweep", 0, db_available, 0, FALSE,
                cleanup_old_sessions(World, db_available, now))
             @@ [notified |-> NotifyEach(World, db_available,
                                         sessions_to_remove(World, now))]
  /\ UNCHANGED <<db_available, now, loader, pending>>

\* one run of the Database.cleanup_old_sessions loop
DbSweep ==
  /\ db_available
  /\ Apply(db_cleanup_old_sessions(World, now))
  /\ ret' = Ret("dbsweep", 0, TRUE, 0, FALSE, World)
  /\ UNCHANGED <<db_available, now, loader, pending>>

Next ==
  \/ Tick
  \/ \E u \in UserIds, c \in CharacterInputs : StartSession(u, c)
  \/ \E sid \in SessionIds, ch \in ChoiceInputs : MakeDecision(sid, ch)
  \/ \E sid \in SessionIds, completed \in BOOLEAN : EndSession(sid, completed)
  \/ ReaperSweep
  \/ DbSweep

Spec == Init /\ [][Next]_vars

\* A caller invokes GameSession.make_decision on a live session object
\* itself, as the method documents (decision_number is the 1-based number).
DirectDecision(session_id, decision_number, choice) ==
  /\ session_id \in DOMAIN active_sessions
  /\ active_sessions[session_id].current_decision < MaxDecisionIndex
  /\ LET r == SessionMakeDecision(active_sessions[session_id],
                                  decision_number, choice, now)
     IN /\ active_sessions' = [active_sessions EXCEPT ![session_id] = r.session]
        /\ ret' = Ret("direct", session_id, TRUE, r.score, FALSE, World)
  /\ UNCHANGED <<user_sessions, next_session_id, db_available, db_users,
                 db_games, db_decisions, db_sessions, db_feedback,
                 complete_calls, now, loader, pending>>

NextDirect ==
  \/ Next
  \/ \E sid \in SessionIds, n \in 1..MaxDecisionIndex, ch \in ChoiceInputs :
        DirectDecision(sid, n, ch)

\* the engine together with direct use of the GameSession objects it hands out
SpecDirect == Init /\ [][NextDirect]_vars

\* GameSession.make_decision is called on a live session object with the
\* number of its current decision; the method itself does not look at
\* whether the session is completed
AnswerCurrent(session_id, choice) ==
  /\ session_id \in DOMAIN active_sessions
  /\ LET s == active_sessions[session_id]
         r == SessionMakeDecision(s, s.current_decision, choice, now)
     IN /\ s.current_decision
             <= get_total_decisions(s.character) + MaxExtraAnswers
        /\ active_sessions' = [active_sessions EXCEPT ![session_id] = r.session]
        /\ ret' = Ret("direct", session_id, TRUE, r.score, FALSE, World)
  /\ UNCHANGED <<user_sessions, next_session_id, db_available, db_users,
                 db_games, db_decisions, db_sessions, db_feedback,
                 complete_calls, now, loader, pending>>

\* GameSession.get_analysis() on a live session; the returned dictionary is
\* kept in ret.analysis
GetAnalysis(session_id) ==
  /\ session_id \in DOMAIN active_sessions
  /\ ret' = [op |-> "analysis", sid |-> session_id, ok |-> TRUE, score |-> 0,
             completed |-> FALSE, removed |-> {},
             analysis |-> get_analysis(active_sessions[session_id])]
  /\ UNCHANGED <<active_sessions, user_sessions, next_session_id,
                 db_available, db_users, db_games, db_decisions, db_sessions,
                 db_feedback, complete_calls, now, loader, pending>>

NextAnalysis ==
  \/ \E c \in DOMAIN Characters : StartSession(AnalysisUser, c)
  \/ \E sid \in SessionIds, ch \in AnalysisChoices : AnswerCurrent(sid, ch)
  \/ \E sid \in SessionIds : GetAnalysis(sid)

\* one user's sessions of any character, answered decision by decision, with
\* the analysis taken at any time
SpecAnalysis == Init /\ [][NextAnalysis]_vars

\* GameManager.record_feedback(session_id, rating, comments)
RecordFeedback(session_id, rating) ==
  LET r == record_feedback(World, db_available, session_id, rating)
  IN /\ r.ok => BagCardinality(db_feedback) < MaxFeedbackRows
     /\ Apply(r.w)
     /\ ret' = Ret("feedback", session_id, r.ok, 0, FALSE, r.w)
     /\ UNCHANGED <<db_available, now, loader, pending>>

\* FeedbackModal.on_submit for the modal of a session, with the text typed
\* into the rating field
OnSubmit(session_id, text) ==
  LET r == record_feedback(World, db_available, session_id, rating_value(text))
  IN /\ r.ok => BagCardinality(db_feedback) < MaxFeedbackRows
     /\ Apply(r.w)
     /\ ret' = Ret("submit", session_id, r.ok, 0, FALSE, r.w)
     /\ UNCHANGED <<db_available, now, loader, pending>>

NextFeedback ==
  \/ \E u \in UserIds, c \in CharacterInputs : StartSession(u, c)
  \/ \E sid \in SessionIds, completed \in BOOLEAN : EndSession(sid, completed)
  \/ \E sid \in SessionIds, rating \in RatingInputs :
        RecordFeedback(sid, rating)
  \/ \E sid \in SessionIds, text \in RatingTexts : OnSubmit(sid, text)

\* sessions that are started and ended, with feedback given on them through
\* the modal or by calling the engine
SpecFeedback == Init /\ [][NextFeedback]_vars

(* ------------------------------ properties ----------------------------- *)

Live == DOMAIN active_sessions

SessionsOf(user_id) ==
  {sid \in Live : active_sessions[sid].user_id = user_id}

\* get_user_session(user_id) finds no session: there is no mapping, or the
\* mapped id is not in the live table
NoSessionFor(us, as, user_id) ==
  user_id \notin DOMAIN us \/ us[user_id] \notin DOMAIN as

\* C1: after any sequence of start / advance / end / sweep operations, every
\* user id owns at most one entry of active_sessions.
C1_OneLiveSessionPerUser ==
  \A u \in UserIds : Cardinality(SessionsOf(u)) <= 1

\* a second start for a user has just replaced that user's live session
C1_Witness ==
  /\ ret.op = "start" /\ ret.ok /\ ret.removed # {}
  /\ \E u \in UserIds : SessionsOf(u) = {ret.sid}

\* C2: a successful start for a user who has a live session removes that
\* session from the live table without changing its durable game's completed
\* flag, maps the user to the new session id, and from then on the old id is
\* never live again, so that make_decision on it takes the session-not-found
\* return: (0, False) and nothing changed.
C2_StartSupersedes ==
  [][ /\ \A u \in UserIds, c \in CharacterInputs :
          LET r == create_game_session(World, db_available, u, c, now) IN
            (ret'.op = "start" /\ ret'.ok
               /\ ~NoSessionFor(user_sessions, active_sessions, u)
               /\ StartSession(u, c))
            => LET old == active_sessions[user_sessions[u]] IN
                 /\ old.id \notin DOMAIN active_sessions'
                 /\ db_games'[old.game_id].completed
                      = db_games[old.game_id].completed
                 /\ complete_calls'[old.game_id] = complete_calls[old.game_id]
                 /\ user_sessions'[u] = r.session_id
                 /\ r.session_id \in DOMAIN active_sessions'
      /\ \A sid \in SessionIds :
          (sid < next_session_id /\ sid \notin Live)
            => sid \notin DOMAIN active_sessions'
      /\ \A sid \in SessionIds, ch \in ChoiceInputs :
          (ret'.op = "advance" /\ sid \notin Live /\ MakeDecision(sid, ch))
            => /\ ~ret'.ok /\ ret'.score = 0 /\ ~ret'.completed
               /\ UNCHANGED <<active_sessions, user_sessions, db_users,
                              db_games, db_decisions, db_sessions,
                              complete_calls>>
    ]_vars

\* make_decision was called with the id of a session that a later start of
\* the same user had replaced
C2_Witness ==
  /\ ret.op = "advance" /\ ~ret.ok /\ db_available
  /\ ret.sid < next_session_id /\ ret.sid \notin Live
  /\ \E sid \in Live :
        /\ sid > ret.sid
        /\ \E x \in DOMAIN db_games :
              /\ x # active_sessions[sid].game_id
              /\ db_games[x].user_id = active_sessions[sid].user_id
              /\ ~db_games[x].completed

\* C3: make_decision on a live session that is not completed, at decision i,
\* returns the score of the choice in decision i and leaves
\* decisions_made[i] = choice, total_score grown by that score and
\* current_decision = i + 1.
C3_AdvanceScoresAndMoves ==
  [][ \A sid \in SessionIds, ch \in ChoiceInputs :
        (MakeDecision(sid, ch) /\ sid \in Live /\ db_available
           /\ ~is_completed(active_sessions[sid]))
        => LET s == active_sessions[sid]
               i == s.current_decision
               t == active_sessions'[sid]
           IN /\ ret'.score = get_choice_score(s.character, i, ch)
              /\ i \in DOMAIN t.decisions_made
              /\ t.decisions_made[i] = ch
              /\ t.total_score = s.total_score + ret'.score
              /\ t.current_decision = i + 1
    ]_vars

RECURSIVE Copies(_, _)
Copies(bag, rows) ==
  IF rows = {} THEN 0
  ELSE LET r == CHOOSE x \in rows : TRUE
       IN CopiesIn(r, bag) + Copies(bag, rows \ {r})

\* the number of make_decision calls that reached the durable store for a game
CallsFor(game_id) ==
  Copies(db_decisions, {r \in BagToSet(db_decisions) : r.game_id = game_id})

\* C4: on a freshly started session of a character with N decisions, the
\* n-th make_decision call (n <= N) returns completed = TRUE exactly when
\* n = N, and a session is completed exactly when current_decision > N.
C4_CompletesAtNthAdvance ==
  (ret.op = "advance" /\ ret.ok /\ ret.sid \in Live)
  => LET s == active_sessions[ret.sid]
         total == get_total_decisions(s.character)
         n == CallsFor(s.game_id)
     IN /\ n <= total => (ret.completed <=> n = total)
        /\ is_completed(s) <=> s.current_decision > total

\* C5: every live session's current_decision lies in [1, total + 1], and no
\* step lowers the current_decision of a session that stays live.
C5_IndexInRangeAndMonotone ==
  /\ [](\A sid \in Live :
          /\ active_sessions[sid].current_decision >= 1
          /\ active_sessions[sid].current_decision
               <= get_total_decisions(active_sessions[sid].character) + 1)
  /\ [][\A sid \in Live \cap DOMAIN active_sessions' :
          active_sessions'[sid].current_decision
            >= active_sessions[sid].current_decision]_vars

\* make_decision has just run on a session that is live
C5_Witness ==
  ret.op = "advance" /\ ret.ok /\ ret.sid \in Live
  /\ db_decisions # EmptyBag

\* C6: make_decision on a session whose current_decision already exceeds the
\* number of decisions adds nothing to the score, records no further
\* decision and does not complete the durable game again.
C6_AdvanceAfterCompletionFails ==
  [][ \A sid \in SessionIds, ch \in ChoiceInputs :
        (MakeDecision(sid, ch) /\ sid \in Live /\ db_available
           /\ is_completed(active_sessions[sid]))
        => LET s == active_sessions[sid] IN
             /\ ret'.score = 0
             /\ sid \in DOMAIN active_sessions'
                  => active_sessions'[sid].total_score = s.total_score
             /\ db_games'[s.game_id].total_score
                  = db_games[s.game_id].total_score
             /\ db_decisions' = db_decisions
             /\ complete_calls'[s.game_id] <= 1
    ]_vars

\* C7: complete_game is called at most once for any game id.
C7_CompleteGameAtMostOnce ==
  \A g \in DOMAIN complete_calls : complete_calls[g] <= 1

\* end_game_session(completed=True) has just completed a game
C7_Witness ==
  /\ ret.op = "end" /\ ret.ok
  /\ \E g \in DOMAIN db_games :
        db_games[g].completed /\ complete_calls[g] = 1

\* C8: make_decision with a key that is not among the current decision's
\* choices returns score 0, records the key in decisions_made under the
\* current number, and moves current_decision on by exactly 1.
C8_UnknownChoiceStillAdvances ==
  [][ \A sid \in SessionIds, ch \in ChoiceInputs :
        (MakeDecision(sid, ch) /\ sid \in Live /\ db_available
           /\ ~is_completed(active_sessions[sid])
           /\ ch \notin DOMAIN
                 Characters[active_sessions[sid].character]
                           [active_sessions[sid].current_decision].choices)
        => LET i == active_sessions[sid].current_decision
               t == active_sessions'[sid]
           IN /\ ret'.score = 0
              /\ i \in DOMAIN t.decisions_made
              /\ t.decisions_made[i] = ch
              /\ t.current_decision = i + 1
    ]_vars

\* C9: a reaper sweep removes every live session idle for strictly more than
\* GAME_TIMEOUT seconds (its owner then has no session), and leaves every
\* other live session, and its owner's mapping, as they were.
C9_SweepRemovesExactlyExpired ==
  [][ (ret'.op = "sweep" /\ ReaperSweep)
      => \A sid \in Live :
           LET s == active_sessions[sid] IN
             IF now - s.last_activity > GAME_TIMEOUT
             THEN /\ sid \notin DOMAIN active_sessions'
                  /\ NoSessionFor(user_sessions', active_sessions', s.user_id)
                       \/ user_sessions'[s.user_id] # sid
             ELSE /\ sid \in DOMAIN active_sessions'
                  /\ active_sessions'[sid] = s
                  /\ s.user_id \in DOMAIN user_sessions
                       => /\ s.user_id \in DOMAIN user_sessions'
                          /\ user_sessions'[s.user_id]
                               = user_sessions[s.user_id]
    ]_vars

\* a sweep has just removed an expired session and left a fresh one
C9_Witness ==
  /\ ret.op = "sweep" /\ ret.removed # {}
  /\ \E sid \in Live : now - active_sessions[sid].last_activity <= GAME_TIMEOUT

\* C10: make_decision on a live session sets that session's last_activity to
\* the current time, so that a sweep running right after it leaves the
\* session in place.
C10_AdvanceRefreshesActivity ==
  [][ /\ \A sid \in SessionIds, ch \in ChoiceInputs :
          (MakeDecision(sid, ch) /\ sid \in Live /\ db_available)
          => /\ sid \in DOMAIN active_sessions'
             /\ active_sessions'[sid].last_activity = now
      /\ (ReaperSweep /\ ret.op = "advance" /\ ret.ok /\ ret.sid \in Live)
          => ret.sid \in DOMAIN active_sessions'
    ]_vars

\* C11: when make_decision returns completed = TRUE, the session's durable
\* game is marked completed, and the session is no longer in active_sessions
\* nor is its id the value of any user_sessions entry.
C11_CompletingAdvanceRemoves ==
  [][ \A sid \in SessionIds, ch \in ChoiceInputs :
        (ret'.op = "advance" /\ ret'.ok /\ ret'.completed
           /\ MakeDecision(sid, ch))
        => /\ db_games'[active_sessions[sid].game_id].completed
           /\ sid \notin DOMAIN active_sessions'
           /\ \A u \in DOMAIN user_sessions' : user_sessions'[u] # sid
    ]_vars

\* C12: end_game_session on a live session id leaves no durable session row
\* for that id, no user_sessions entry for its owner and no active_sessions
\* entry for the id; on an id that is not live it takes the
\* session-not-found return and changes neither the in-memory tables nor the
\* durable ones, so a second call on the same id changes nothing.
C12_EndRemovesOrLeavesAlone ==
  [][ \A sid \in SessionIds, completed \in BOOLEAN :
        (ret'.op = "end" /\ EndSession(sid, completed))
        => IF sid \in Live
           THEN /\ ret'.ok
                /\ sid \notin DOMAIN db_sessions'
                /\ active_sessions[sid].user_id \notin DOMAIN user_sessions'
                /\ sid \notin DOMAIN active_sessions'
           ELSE /\ ~ret'.ok
                /\ UNCHANGED <<active_sessions, user_sessions, db_users,
                               db_games, db_decisions, db_sessions,
                               complete_calls>>
    ]_vars

\* end_game_session was called on the id of a session that had been ended
\* before, with the Database cog present
C12_Witness ==
  /\ ret.op = "end" /\ ~ret.ok /\ db_available
  /\ ret.sid < next_session_id
  /\ Live = {} /\ DOMAIN user_sessions = {} /\ DOMAIN db_sessions = {}
  /\ next_session_id = 2

\* C13: end_game_session(id, completed=True) on a live session that is not
\* completed marks its durable game completed and adds the session's total
\* score to the user's total_score, by one complete_game call (the only one
\* for that game), and removes the session; a session removed by
\* end_game_session(id, completed=False), by a new start of its user or by
\* the reaper's sweep leaves its durable game's completed flag, the number of
\* complete_game calls and the user's total_score as they were.
C13_CompletionCreditOnlyWhenAsked ==
  [][ /\ \A sid \in SessionIds, completed \in BOOLEAN :
          (ret'.op = "end" /\ sid \in Live /\ EndSession(sid, completed))
          => LET s == active_sessions[sid] IN
               /\ sid \notin DOMAIN active_sessions'
               /\ (completed /\ ~is_completed(s))
                    => /\ db_games'[s.game_id].completed
                       /\ complete_calls[s.game_id] = 0
                       /\ complete_calls'[s.game_id] = 1
                       /\ db_users'[s.user_id].total_score
                            = db_users[s.user_id].total_score + s.total_score
               /\ ~completed
                    => /\ db_games' = db_games
                       /\ complete_calls' = complete_calls
                       /\ db_users' = db_users
      /\ (ret'.op \in {"start", "sweep"})
          => \A sid \in ret'.removed :
               LET s == active_sessions[sid] IN
                 /\ db_games'[s.game_id] = db_games[s.game_id]
                 /\ complete_calls' = complete_calls
                 /\ db_users'[s.user_id].total_score
                      = db_users[s.user_id].total_score
    ]_vars

\* one session was ended with completed=False and, later, another one with
\* completed=True
C13_Witness ==
  /\ ret.op = "end" /\ ret.ok /\ Live = {}
  /\ Len(db_games) = 2
  /\ ~db_games[1].completed /\ complete_calls[1] = 0
  /\ db_games[2].completed /\ complete_calls[2] = 1

\* C14: create_game_session with a character id that the loader does not
\* know, or without the Database cog, returns None and changes nothing: no
\* session is added, no durable user, game or session row is written, and a
\* session the user already had stays in active_sessions and user_sessions.
C14_FailedStartChangesNothing ==
  [][ \A u \in UserIds, c \in CharacterInputs :
        (ret'.op = "start" /\ (get_character(c) = "None" \/ ~db_available)
           /\ StartSession(u, c))
        => /\ ~ret'.ok /\ ret'.sid = 0
           /\ UNCHANGED <<active_sessions, user_sessions, next_session_id,
                          db_users, db_games, db_decisions, db_sessions,
                          complete_calls>>
    ]_vars

\* a start has just failed with the Database cog present (the character id
\* was unknown) while every user had a live, mapped session
C14_Witness ==
  /\ ret.op = "start" /\ ~ret.ok /\ db_available
  /\ \A u \in UserIds : ~NoSessionFor(user_sessions, active_sessions, u)

\* C15: a create_game_session call that succeeds returns a session that was
\* not live before, with current_decision = 1, total_score = 0 and no
\* decisions made, for the requested user and character and for a durable
\* game row created by this call; the session is in active_sessions, the
\* user's user_sessions entry is its id, and a durable session row for it
\* exists.
C15_StartReturnsFreshSession ==
  [][ \A u \in UserIds, c \in CharacterInputs :
        (ret'.op = "start" /\ ret'.ok /\ StartSession(u, c))
        => /\ ret'.sid \notin Live
           /\ ret'.sid \in DOMAIN active_sessions'
           /\ LET s == active_sessions'[ret'.sid] IN
                /\ s.id = ret'.sid
                /\ s.current_decision = 1
                /\ s.total_score = 0
                /\ s.decisions_made = <<>>
                /\ s.user_id = u
                /\ s.character = c
                /\ s.game_id \notin DOMAIN db_games
                /\ s.game_id \in DOMAIN db_games'
                /\ db_games'[s.game_id]
                     = [user_id |-> u, character_id |-> c,
                        total_score |-> 0, completed |-> FALSE]
                /\ u \in DOMAIN user_sessions'
                /\ user_sessions'[u] = ret'.sid
                /\ ret'.sid \in DOMAIN db_sessions'
                /\ db_sessions'[ret'.sid].user_id = u
                /\ db_sessions'[ret'.sid].game_id = s.game_id
    ]_vars

\* the first start of a run has just succeeded
C15_Witness ==
  /\ ret.op = "start" /\ ret.ok /\ ret.removed = {}
  /\ Len(db_games) = 1 /\ Live = {ret.sid}
  /\ ret.sid \in DOMAIN db_sessions

\* C16: after every handler call and every sweep, the durable session table
\* has a row for a session id exactly when that id is in active_sessions.
C16_MirrorIffLive ==
  DOMAIN db_sessions = DOMAIN active_sessions

\* C17: make_decision with a session id that is not in active_sessions
\* changes neither the in-memory tables nor the durable ones, and what it
\* returns differs from what a call that finds its session (with the
\* Database cog present) can return in the same state.
C17_UnknownSessionFailsDistinctly ==
  [][ \A sid \in SessionIds, ch \in ChoiceInputs :
        (ret'.op = "advance" /\ sid \notin Live /\ MakeDecision(sid, ch))
        => /\ UNCHANGED <<active_sessions, user_sessions, db_users, db_games,
                          db_decisions, db_sessions, complete_calls>>
           /\ db_available
                => \A sid2 \in Live, ch2 \in ChoiceInputs :
                     LET r == make_decision(World, db_available, sid2, ch2, now)
                     IN <<r.score, r.completed>>
                          # <<ret'.score, ret'.completed>>
    ]_vars

\* the highest score that a choice of decision i of the character has (a
\* choice without a score has score 0)
HighestChoiceScore(character, i) ==
  LET scores == {get_choice_score(character, i, k) :
                   k \in DOMAIN Characters[character][i].choices}
  IN CHOOSE x \in scores : \A y \in scores : y <= x

RECURSIVE SumHighest(_, _)
SumHighest(character, n) ==
  IF n = 0 THEN 0
  ELSE SumHighest(character, n - 1) + HighestChoiceScore(character, n)

\* C18: for every character, get_analysis reports max_score equal to the sum
\* over all decisions of the highest choice score in the decision, and for a
\* session that answered every decision with a highest-scoring choice it
\* reports score = max_score.
C18_MaxScoreIsSumOfBest ==
  (ret.op = "analysis" /\ ret.sid \in Live)
  => LET s == active_sessions[ret.sid]
         total == get_total_decisions(s.character)
     IN /\ ret.analysis.max_score = SumHighest(s.character, total)
        /\ (\A i \in 1..total :
              /\ i \in DOMAIN s.decisions_made
              /\ get_choice_score(s.character, i, s.decisions_made[i])
                   = HighestChoiceScore(s.character, i))
           => ret.analysis.score = ret.analysis.max_score

\* C19: get_analysis takes percentage = total_score / max_score * 100 (0 when
\* max_score is 0) and returns the text and principles of the character's
\* 'excellent' template iff percentage >= 80, of its 'good' template iff
\* 60 <= percentage < 80, and of 'needs_improvement' otherwise; when the
\* character has no template for that tier, it returns the built-in text of
\* the tier with an empty principle list.
C19_TierByPercentage ==
  (ret.op = "analysis" /\ ret.sid \in Live)
  => LET s == active_sessions[ret.sid]
         a == ret.analysis
         num == IF a.max_score = 0 THEN 0 ELSE s.total_score * 100
         den == IF a.max_score = 0 THEN 1 ELSE a.max_score
         tier == IF num >= 80 * den THEN "excellent"
                 ELSE IF num >= 60 * den /\ num < 80 * den THEN "good"
                 ELSE "needs_improvement"
         builtin == [t \in {"excellent", "good", "needs_improvement"} |->
                       CASE t = "excellent" -> "Excellent performance!"
                         [] t = "good" -> "Good performance!"
                         [] OTHER -> "Needs improvement."]
         templates == analysis_templates[s.character]
     IN /\ den > 0
        /\ a.percentage.num * den = num * a.percentage.den
        /\ IF tier \in DOMAIN templates
           THEN /\ a.text = templates[tier].text
                /\ a.principles = IF "principles" \in DOMAIN templates[tier]
                                  THEN templates[tier].principles
                                  ELSE <<>>
           ELSE /\ a.text = builtin[tier]
                /\ a.principles = <<>>

\* the analysis of a session at exactly 60 percent, for a character that has
\* no 'good' template
C19_Witness ==
  /\ ret.op = "analysis" /\ ret.sid \in Live
  /\ ret.analysis.max_score > 0
  /\ ret.analysis.score * 100 = 60 * ret.analysis.max_score
  /\ "good" \notin DOMAIN analysis_templates[active_sessions[ret.sid].character]
  /\ ret.analysis.text = "Good performance!"

\* C20: get_analysis reports correct_decisions equal to the number of entries
\* of decisions_made whose choice is the correct_choice of their decision,
\* and accuracy = correct_decisions / total_decisions * 100; whenever it is
\* computed, 0 <= correct_decisions <= |decisions_made| <= total_decisions.
C20_CorrectDecisionsAndAccuracy ==
  (ret.op = "analysis" /\ ret.sid \in Live)
  => LET s == active_sessions[ret.sid]
         a == ret.analysis
         total == get_total_decisions(s.character)
         matching == {n \in DOMAIN s.decisions_made :
                        /\ n \in 1..total
                        /\ s.decisions_made[n]
                             = Characters[s.character][n].correct_choice}
     IN /\ a.correct_decisions = Cardinality(matching)
        /\ a.total_decisions = total
        /\ a.accuracy.num * total = a.correct_decisions * 100 * a.accuracy.den
        /\ 0 <= a.correct_decisions
        /\ a.correct_decisions <= Cardinality(DOMAIN s.decisions_made)
        /\ Cardinality(DOMAIN s.decisions_made) <= total

\* C21: record_feedback with a session id that is not live returns False and
\* writes no feedback row; with a live session id it returns True and writes
\* exactly one feedback row, which carries the session's game id.
C21_FeedbackOnlyForLiveSession ==
  [][ \A sid \in SessionIds :
        (ret'.op = "feedback" /\ ret'.sid = sid)
        => IF sid \in Live
           THEN /\ ret'.ok
                /\ BagCardinality(db_feedback') = BagCardinality(db_feedback) + 1
                /\ \E row \in BagToSet(db_feedback') :
                     /\ row.game_id = active_sessions[sid].game_id
                     /\ CopiesIn(row, db_feedback')
                          = CopiesIn(row, db_feedback) + 1
           ELSE /\ ~ret'.ok
                /\ db_feedback' = db_feedback
    ]_vars

\* feedback was recorded for the live session of the second game
C21_Witness ==
  /\ ret.op = "feedback" /\ ret.ok /\ ret.sid \in Live
  /\ active_sessions[ret.sid].game_id = 2
  /\ \E row \in BagToSet(db_feedback) : row.game_id = 2

\* C22: record_feedback with a rating outside [1, 5] fails and writes no
\* feedback row, so that no feedback row ever holds a rating outside [1, 5].
C22_RatingOutOfRangeRejected ==
  /\ [][ \A sid \in SessionIds, rating \in RatingInputs :
           (ret'.op = "feedback" /\ RecordFeedback(sid, rating)
              /\ rating \notin MIN_RATING..MAX_RATING)
           => /\ ~ret'.ok
              /\ db_feedback' = db_feedback
       ]_vars
  /\ [](\A row \in BagToSet(db_feedback) :
          row.rating \in MIN_RATING..MAX_RATING)

(* ------------------------- the Content Store --------------------------- *)

\* the documents that are handed to save_character_file
SaveInputs == {"valid", "plain", "bad_correct"}

LoaderRet(op, ok, count, id, data) ==
  [op |-> op, ok |-> ok, count |-> count, id |-> id, data |-> data]

LoaderUnchanged ==
  UNCHANGED <<active_sessions, user_sessions, next_session_id, db_available,
              db_users, db_games, db_decisions, db_sessions, db_feedback,
              complete_calls, now, pending>>

\* a file of the characters directory is written from outside the program
WriteFile(file, content) ==
  /\ loader.exists
  /\ ~(file \in DOMAIN loader.files /\ loader.files[file] = content)
  /\ loader' = [loader EXCEPT !.files = (file :> content) @@ @]
  /\ ret' = LoaderRet("write", TRUE, 0, "", <<>>)
  /\ LoaderUnchanged

\* the characters directory is removed, with its files
RemoveDirectory ==
  /\ loader.exists
  /\ loader' = [loader EXCEPT !.exists = FALSE, !.files = <<>>]
  /\ ret' = LoaderRet("rmdir", TRUE, 0, "", <<>>)
  /\ LoaderUnchanged

\* the characters directory is created again, empty
CreateDirectory ==
  /\ ~loader.exists
  /\ loader' = [loader EXCEPT !.exists = TRUE]
  /\ ret' = LoaderRet("mkdir", TRUE, 0, "", <<>>)
  /\ LoaderUnchanged

\* CharacterLoader.reload_characters: load everything, return the count
Reload(order) ==
  /\ loader' = load_all_characters(loader, order)
  /\ ret' = LoaderRet("reload", TRUE,
                      Cardinality(DOMAIN loader'.characters), "", <<>>)
  /\ LoaderUnchanged

\* yaml_parser.save_character_file(character_id, data)
SaveCharacterFile(character_id, data) ==
  LET r == save_character_file(loader, character_id, data) IN
    /\ loader' = r.ld
    /\ ret' = LoaderRet("save", r.ok, 0, character_id, <<data>>)
    /\ LoaderUnchanged

NextLoader ==
  \/ \E input \in FileInputs : WriteFile(input[1], input[2])
  \/ RemoveDirectory
  \/ CreateDirectory
  \/ \E order \in ListedOrders(loader) : Reload(order)
  \/ \E character_id \in {"a", "b"}, n \in SaveInputs :
       SaveCharacterFile(character_id, Documents[n])

SpecLoader == Init /\ [][NextLoader]_vars

\* the files of the directory that the loader reads
YamlFiles(ld) ==
  {f \in DOMAIN ld.files : f.ext = "yml" \/ f.ext = "yaml"}

\* a document that has every required top-level field, at least one
\* decision, and in every decision all required fields, at least one choice
\* and a correct choice that is one of the choices
WellFormed(data) ==
  /\ REQUIRED_CHARACTER_FIELDS \subseteq DOMAIN data
  /\ Len(data.decisions) >= 1
  /\ \A i \in 1..Len(data.decisions) :
       /\ REQUIRED_DECISION_FIELDS \subseteq DOMAIN data.decisions[i][2]
       /\ Cardinality(DOMAIN data.decisions[i][2].choices) >= 1
       /\ \E k \in DOMAIN data.decisions[i][2].choices :
            k = data.decisions[i][2].correct_choice

\* C23: every character of the table has a non-empty decision sequence, each
\* decision has all required fields and at least one choice, and its
\* correct_choice is a key of its choices; and every character a load puts in
\* the table is built from a file whose document has all of this and every
\* required top-level field.
C23_TableHoldsOnlyValidCharacters ==
  /\ [](\A id \in DOMAIN loader.characters :
          LET c == loader.characters[id] IN
            /\ c.sorted_decisions # <<>>
            /\ Len(c.sorted_decisions) = Len(c.decisions)
            /\ \A i \in DOMAIN c.sorted_decisions :
                 LET d == c.sorted_decisions[i][2] IN
                   /\ REQUIRED_DECISION_FIELDS \subseteq DOMAIN d
                   /\ DOMAIN d.choices # {}
                   /\ d.correct_choice \in DOMAIN d.choices)
  /\ [][ ret'.op = "reload"
         => \A id \in DOMAIN loader'.characters :
              \E f \in YamlFiles(loader) :
                /\ f.stem = id
                /\ loader.files[f].kind = "doc"
                /\ WellFormed(loader.files[f].data)
                /\ loader'.characters[id] = Character(id, loader.files[f].data)
       ]_vars

\* a reload has put a character in the table and kept out a file whose
\* second decision names a correct choice that is not among its choices
C23_Witness ==
  /\ ret.op = "reload"
  /\ "a" \in DOMAIN loader.characters
  /\ "b" \notin DOMAIN loader.characters
  /\ [stem |-> "b", ext |-> "yml"] \in DOMAIN loader.files
  /\ loader.files[[stem |-> "b", ext |-> "yml"]]
       = [kind |-> "doc", data |-> Documents["bad_correct"]]

\* a document that passes every check apart from those on analysis_templates
OtherwiseValid(data) ==
  /\ (REQUIRED_CHARACTER_FIELDS \ {"analysis_templates"}) \subseteq DOMAIN data
  /\ Len(data.decisions) >= 1
  /\ \A i \in 1..Len(data.decisions) :
       /\ REQUIRED_DECISION_FIELDS \subseteq DOMAIN data.decisions[i][2]
       /\ Cardinality(DOMAIN data.decisions[i][2].choices) >= 1
       /\ \E k \in DOMAIN data.decisions[i][2].choices :
            k = data.decisions[i][2].correct_choice

\* a document without analysis templates: the field is absent or empty
HasNoTemplates(data) ==
  \/ "analysis_templates" \notin DOMAIN data
  \/ /\ "analysis_templates" \in DOMAIN data
     /\ DOMAIN data.analysis_templates = {}

\* C24: a load puts in the table every file whose document is valid apart
\* from having no analysis_templates.
C24_NoTemplatesStillLoaded ==
  [][ ret'.op = "reload"
      => \A f \in YamlFiles(loader) :
           (/\ loader.files[f].kind = "doc"
            /\ OtherwiseValid(loader.files[f].data)
            /\ HasNoTemplates(loader.files[f].data))
           => f.stem \in DOMAIN loader'.characters ]_vars

\* a file that the loader reads and whose document passes validation
ValidFile(ld, f) ==
  /\ f \in YamlFiles(ld)
  /\ ld.files[f].kind = "doc"
  /\ WellFormed(ld.files[f].data)

\* C25: a load of a reachable directory puts every valid file in the table,
\* whatever other files fail to parse or to validate; a failing file puts
\* nothing in it; and the count returned is the size of the table.
C25_FailuresIsolatedPerFile ==
  [][ (ret'.op = "reload" /\ loader.exists)
      => /\ \A f \in YamlFiles(loader) :
              IF ValidFile(loader, f)
              THEN /\ f.stem \in DOMAIN loader'.characters
                   /\ \E g \in YamlFiles(loader) :
                        /\ g.stem = f.stem
                        /\ ValidFile(loader, g)
                        /\ loader'.characters[f.stem]
                             = Character(f.stem, loader.files[g].data)
              ELSE (\A g \in YamlFiles(loader) :
                      g.stem = f.stem => ~ValidFile(loader, g))
                   => f.stem \notin DOMAIN loader'.characters
         /\ ret'.count = Cardinality(DOMAIN loader'.characters) ]_vars

\* a reload met a file that does not parse and loaded the valid file beside it
C25_Witness ==
  /\ ret.op = "reload"
  /\ ret.count = 1
  /\ [stem |-> "b", ext |-> "yml"] \in DOMAIN loader.files
  /\ loader.files[[stem |-> "b", ext |-> "yml"]] = [kind |-> "unparsable"]
  /\ [stem |-> "a", ext |-> "yml"] \in DOMAIN loader.files
  /\ loader.files[[stem |-> "a", ext |-> "yml"]]
       = [kind |-> "doc", data |-> Documents["valid"]]
  /\ loader_get_character(loader, "a")
       = <<Character("a", Documents["valid"])>>

\* C26: a reload that finds the characters directory unreachable leaves the
\* table as it was, so get_character still returns what was loaded before.
C26_FailedReloadKeepsTable ==
  [][ (ret'.op = "reload" /\ ~loader.exists)
      => /\ loader'.characters = loader.characters
         /\ \A id \in {"a", "b"} :
              loader_get_character(loader', id)
                = loader_get_character(loader, id) ]_vars

\* C27: a reload that directly follows a successful save_character_file(id,
\* data) yields for id the character of the definition written: the same
\* decision ordering, choices with their scores, correct choices and
\* analysis templates.
C27_SaveThenReloadRoundTrip ==
  [][ (ret.op = "save" /\ ret.ok /\ ret'.op = "reload")
      => /\ loader_get_character(loader', ret.id) # <<>>
         /\ LET written == Character(ret.id, ret.data[1])
                read == loader_get_character(loader', ret.id)[1]
            IN /\ read.sorted_decisions = written.sorted_decisions
               /\ read.decisions = written.decisions
               /\ read.analysis_templates = written.analysis_templates
    ]_vars

(* ---------------- button callbacks beside the handlers ----------------- *)

\* A user presses a choice button of the decision view of a session.  The
\* callback looks the session up and compares its owner: without a session,
\* or for another user, it answers and returns.  Otherwise it awaits
\* edit_message, where it is suspended while other handlers run.
Click(session_id, choice, user_id) ==
  LET p == [sid |-> session_id, choice |-> choice,
            game_id |-> active_sessions[session_id].game_id]
  IN /\ session_id \in DOMAIN active_sessions
     /\ active_sessions[session_id].user_id = user_id
     /\ Cardinality(pending) < MaxPending
     /\ p \notin pending
     /\ pending' = pending \cup {p}
     /\ ret' = Ret("click", session_id, TRUE, 0, FALSE, World)
     /\ UNCHANGED <<active_sessions, user_sessions, next_session_id,
                    db_available, db_users, db_games, db_decisions,
                    db_sessions, db_feedback, complete_calls, now, loader>>

\* a suspended callback goes on: it calls make_decision
Resume(p) ==
  LET found == p.sid \in DOMAIN active_sessions /\ db_available
      r == resume_callback(World, db_available, p, now)
  IN /\ p \in pending
     /\ found => BagCardinality(db_decisions) < MaxDecisionRows
     /\ Apply(r.w)
     /\ pending' = pending \ {p}
     /\ ret' = Ret("resume", p.sid, found, r.score, r.completed, r.w)
     /\ UNCHANGED <<db_available, now, loader>>

NextRace ==
  \/ Tick
  \/ \E u \in UserIds, c \in CharacterInputs : StartSession(u, c)
  \/ \E sid \in SessionIds, ch \in ButtonChoices, u \in UserIds :
       Click(sid, ch, u)
  \/ \E p \in pending : Resume(p)
  \/ \E sid \in SessionIds, completed \in BOOLEAN : EndSession(sid, completed)
  \/ ReaperSweep

SpecRace == Init /\ [][NextRace]_vars

\* the games of the sessions that are live
LiveGames == {active_sessions[sid].game_id : sid \in Live}

\* the durable decision rows of a game
DecisionRows(bag, game_id) ==
  [row \in {r \in BagToSet(bag) : r.game_id = game_id} |-> CopiesIn(row, bag)]

\* C28: a button callback that was suspended while its session was ended (by
\* end_game_session, by the reaper or by a new start of the same user) fails
\* and changes nothing when it goes on, as in the serial order end, advance;
\* in every step, a game without a live session keeps its durable decisions
\* and its score, and a session that was removed does not come back.
C28_AdvanceRacingEndIsSerial ==
  /\ [][ \A p \in pending :
           (ret'.op = "resume" /\ Resume(p) /\ p.sid \notin Live)
           => /\ ~ret'.ok
              /\ ret'.score = 0
              /\ UNCHANGED <<active_sessions, user_sessions, db_users,
                             db_games, db_decisions, db_sessions,
                             complete_calls>> ]_vars
  /\ [][ \A g \in DOMAIN db_games \ LiveGames :
           /\ DecisionRows(db_decisions', g) = DecisionRows(db_decisions, g)
           /\ db_games'[g].total_score = db_games[g].total_score ]_vars
  /\ [][ \A sid \in SessionIds :
           (sid < next_session_id /\ sid \notin Live) => sid \notin Live'
       ]_vars

\* a callback has gone on after its session was ended: it failed, and the
\* game of the session has no decision row
C28_Witness ==
  /\ ret.op = "resume"
  /\ ~ret.ok
  /\ db_available
  /\ ret.sid < next_session_id
  /\ ret.sid \notin Live
  /\ ret.sid \in DOMAIN db_games
  /\ DecisionRows(db_decisions, ret.sid) = <<>>

\* the owner of each session before a step
OwnerOf(sid) == active_sessions[sid].user_id

\* C30: a reaper sweep tries to notify the owner of every session that it
\* removes for having exceeded the timeout.
C30_ReaperNotifiesOwner ==
  [][ ret'.op = "sweep"
      => \A sid \in ret'.removed : OwnerOf(sid) \in ret'.notified ]_vars

(* --------------- the durable sweep with failing notifications ---------- *)

\* one run of Database.cleanup_old_sessions in which user.send behaves as
\* outcome says; the rows selected are kept in ret
DbSweepNotifying(order, outcome) ==
  LET w == db_cleanup_each(World, order, outcome) IN
    /\ db_available
    /\ Apply(w)
    /\ ret' = Ret("dbsweep", 0, TRUE, 0, FALSE, World)
                @@ [selected |-> db_old_sessions(World, now),
                    outcome |-> outcome]
    /\ UNCHANGED <<db_available, now, loader, pending>>

NextNotifying ==
  \/ Tick
  \/ \E u \in UserIds, c \in CharacterInputs : StartSession(u, c)
  \/ \E sid \in SessionIds, completed \in BOOLEAN : EndSession(sid, completed)
  \/ \E order \in FetchOrders(db_old_sessions(World, now)) :
       \E outcome \in [db_old_sessions(World, now) -> SendOutcomes] :
         DbSweepNotifying(order, outcome)

SpecNotifying == Init /\ [][NextNotifying]_vars

\* C31: whatever error processing one expired session raises, every session
\* selected as expired in a sweep is ended by that sweep.
C31_SweepEndsEverySelectedSession ==
  [][ ret'.op = "dbsweep"
      => \A sid \in ret'.selected : sid \notin DOMAIN db_sessions' ]_vars

(* ------------------------- looking a session up ------------------------ *)

\* GameManager.get_user_session(user_id); the session returned is kept in ret
GetUserSession(user_id) ==
  LET r == get_user_session(World, user_id) IN
    /\ Apply(r.w)
    /\ ret' = Ret("lookup", user_id, r.session # <<>>, 0, FALSE, r.w)
                @@ [session |-> r.session]
    /\ UNCHANGED <<db_available, now, loader, pending>>

NextLookup ==
  \/ Tick
  \/ \E u \in UserIds, c \in CharacterInputs : StartSession(u, c)
  \/ \E sid \in SessionIds, completed \in BOOLEAN : EndSession(sid, completed)
  \/ ReaperSweep
  \/ \E u \in UserIds : GetUserSession(u)

SpecLookup == Init /\ [][NextLookup]_vars

\* the live sessions that a user owns
OwnedBy(user_id) ==
  {sid \in Live : active_sessions[sid].user_id = user_id}

\* C32: get_user_session(u) returns the live session owned by u if there is
\* one and None otherwise; when the mapping of u points to an id that is not
\* live it returns None and removes that mapping; in every other case it
\* leaves both tables as they are.  (The handlers keep the two tables
\* consistent, see C39, so no run takes the branch that removes a mapping.)
C32_LookupReturnsLiveSessionOrHeals ==
  [][ \A u \in UserIds :
        (ret'.op = "lookup" /\ ret'.sid = u)
        => /\ IF OwnedBy(u) # {}
              THEN /\ ret'.session # <<>>
                   /\ ret'.session[1].id \in OwnedBy(u)
                   /\ ret'.session[1] = active_sessions[ret'.session[1].id]
              ELSE ret'.session = <<>>
           /\ active_sessions' = active_sessions
           /\ IF u \in DOMAIN user_sessions /\ user_sessions[u] \notin Live
              THEN /\ ret'.session = <<>>
                   /\ user_sessions' = Without(user_sessions, u)
              ELSE user_sessions' = user_sessions ]_vars

\* a lookup has returned the live session of its user, the second session
\* this user started
C32_Witness ==
  /\ ret.op = "lookup"
  /\ ret.ok
  /\ ret.session[1].id = 2
  /\ ret.session[1].user_id = ret.sid
  /\ 1 \notin Live
  /\ ret.sid \in DOMAIN user_sessions
  /\ user_sessions[ret.sid] = 2

(* ------------------------- the durable scores -------------------------- *)

\* the rows of the decisions table that belong to a game
RowsOf(game_id) == {r \in BagToSet(db_decisions) : r.game_id = game_id}

RECURSIVE SumScores(_)
\* the sum of the scores of a set of decision rows, each counted as often as
\* the table holds it
SumScores(rows) ==
  IF rows = {} THEN 0
  ELSE LET r == CHOOSE x \in rows : TRUE
       IN r.score * CopiesIn(r, db_decisions) + SumScores(rows \ {r})

RECURSIVE SumTotals(_)
\* the sum of the total scores of a set of durable games
SumTotals(games) ==
  IF games = {} THEN 0
  ELSE LET g == CHOOSE x \in games : TRUE
       IN db_games[g].total_score + SumTotals(games \ {g})

\* the completed durable games of a user
CompletedGamesOf(user_id) ==
  {g \in DOMAIN db_games :
     db_games[g].user_id = user_id /\ db_games[g].completed}

\* C34: an advance that answers the last decision of a live session, moving
\* current_decision past the number of decisions, marks the durable game
\* completed and adds the game's total score to the lifetime total of the
\* owner; and the lifetime total of every user is the sum of the total
\* scores of the user's completed games.
C34_LastAdvanceCompletesAndFolds ==
  /\ [][ \A sid \in Live :
           (/\ ret'.op = "advance" /\ ret'.ok /\ ret'.sid = sid
            /\ active_sessions[sid].current_decision
                 = get_total_decisions(active_sessions[sid].character))
           => LET g == active_sessions[sid].game_id
                  u == active_sessions[sid].user_id
              IN /\ db_games'[g].completed
                 /\ db_users'[u].total_score
                      = db_users[u].total_score + db_games'[g].total_score
       ]_vars
  /\ [](\A u \in DOMAIN db_users :
          db_users[u].total_score = SumTotals(CompletedGamesOf(u)))

(* ------------------- the Database cog called directly ------------------ *)

\* Database.create_session for a user, under a session id that was not used
\* before (callers make ids with uuid4)
DbCreateSession(user_id, game_id) ==
  /\ db_available
  /\ next_session_id <= MaxSessions
  /\ Apply([db_create_session(World, next_session_id, user_id, game_id, now)
              EXCEPT !.next_session_id = @ + 1])
  /\ ret' = Ret("db_create", next_session_id, TRUE, 0, FALSE, World)
              @@ [user |-> user_id]
  /\ UNCHANGED <<db_available, now, loader, pending>>

\* Database.end_session
DbEndSession(session_id) ==
  /\ db_available
  /\ Apply(db_end_session(World, session_id))
  /\ ret' = Ret("db_end", session_id, TRUE, 0, FALSE, World)
  /\ UNCHANGED <<db_available, now, loader, pending>>

NextDatabase ==
  \/ Tick
  \/ \E u \in UserIds, g \in SessionIds : DbCreateSession(u, g)
  \/ \E sid \in SessionIds : DbEndSession(sid)
  \/ DbSweep

SpecDatabase == Init /\ [][NextDatabase]_vars

\* the durable session rows of a user
DbSessionsOf(user_id) ==
  {x \in DOMAIN db_sessions : db_sessions[x].user_id = user_id}

\* C35: the durable active-sessions table holds at most one row per user,
\* and after create_session the row of the user is the new one.
C35_OneDurableSessionPerUser ==
  /\ \A u \in UserIds : Cardinality(DbSessionsOf(u)) <= 1
  /\ ret.op = "db_create" => DbSessionsOf(ret.user) = {ret.sid}

\* create_session has replaced the row that the user had
C35_Witness ==
  /\ ret.op = "db_create"
  /\ ret.sid = 2
  /\ DbSessionsOf(ret.user) = {2}
  /\ next_session_id = 3
  /\ DOMAIN db_sessions = {2}

\* C36: the decision row that an advance writes carries the 1-based number
\* of the decision that was answered, current_decision before the advance,
\* which is also the key under which decisions_made holds the choice.
C36_RowCarriesAnsweredIndex ==
  [][ \A sid \in Live :
        (ret'.op = "advance" /\ ret'.ok /\ ret'.sid = sid)
        => \E row \in BagToSet(db_decisions') :
             /\ CopiesIn(row, db_decisions') = CopiesIn(row, db_decisions) + 1
             /\ row.game_id = active_sessions[sid].game_id
             /\ row.decision_number = active_sessions[sid].current_decision
             /\ row.decision_number
                  \in DOMAIN active_sessions'[sid].decisions_made
             /\ active_sessions'[sid].decisions_made[row.decision_number]
                  = row.choice_made ]_vars

(* ---------------------- the ordering of decisions ---------------------- *)

\* the keys that a raw decisions mapping can have, written as str(key)
RawKeys == {"1", "2", "0", "x", "-1"}

\* the numbers asked of get_decision
DecisionNumbers == -1..(MaxRawDecisions + 1)

\* the raw decisions mappings: the items in the order of the file, with
\* distinct keys; the decision under a key carries the key as its context
RawDecisions ==
  LET decision(key) ==
        [SampleDecision(SampleChoices, "a") EXCEPT !.context = key]
      orders == UNION {[1..n -> RawKeys] : n \in 1..MaxRawDecisions}
  IN {[i \in DOMAIN order |-> <<order[i], decision(order[i])>>] :
        order \in {o \in orders :
                     \A i, j \in DOMAIN o : o[i] = o[j] => i = j}}

\* Character("a", data) is built from a document with the given decisions
BuildCharacter(decisions) ==
  /\ loader' = [loader EXCEPT !.characters =
                  ("a" :> Character("a", SampleDocument(decisions,
                                                        SampleTemplates)))]
  /\ ret' = [op |-> "build", number |-> 0, total |-> 0, decision |-> <<>>]
  /\ LoaderUnchanged

\* get_decision(number) and get_total_decisions() on the character built
GetDecision(number) ==
  /\ "a" \in DOMAIN loader.characters
  /\ ret' = [op |-> "get_decision", number |-> number,
             total |-> character_get_total_decisions(loader.characters["a"]),
             decision |-> character_get_decision(loader.characters["a"],
                                                 number)]
  /\ UNCHANGED loader
  /\ LoaderUnchanged

NextOrdering ==
  \/ \E decisions \in RawDecisions : BuildCharacter(decisions)
  \/ \E number \in DecisionNumbers : GetDecision(number)

SpecOrdering == Init /\ [][NextOrdering]_vars

\* the number a key sorts by: its value when it is a number that is not
\* negative, 0 otherwise
NumericKey(key) ==
  CASE key = "1" -> 1 [] key = "2" -> 2 [] OTHER -> 0

\* the place of a key in a raw mapping
PlaceOf(decisions, key) ==
  CHOOSE i \in DOMAIN decisions : decisions[i][1] = key

\* C37: the decision sequence of a character holds the items of its raw
\* mapping by ascending numeric key, a key that is not a number or is
\* negative counting as 0 and equal keys keeping the order of the mapping;
\* get_decision(n) is the n-th decision of the sequence for 1 <= n <= total
\* and None otherwise.
C37_DecisionsSortedByNumericKey ==
  "a" \in DOMAIN loader.characters
  => LET c == loader.characters["a"]
         sorted == c.sorted_decisions
     IN /\ Len(sorted) = Len(c.decisions)
        /\ {sorted[i] : i \in DOMAIN sorted}
             = {c.decisions[i] : i \in DOMAIN c.decisions}
        /\ \A i, j \in DOMAIN sorted :
             i < j
             => \/ NumericKey(sorted[i][1]) < NumericKey(sorted[j][1])
                \/ /\ NumericKey(sorted[i][1]) = NumericKey(sorted[j][1])
                   /\ PlaceOf(c.decisions, sorted[i][1])
                        < PlaceOf(c.decisions, sorted[j][1])
        /\ ret.op = "get_decision"
           => /\ ret.total = Len(sorted)
              /\ ret.decision = IF 1 <= ret.number /\ ret.number <= Len(sorted)
                                THEN <<sorted[ret.number][2]>>
                                ELSE <<>>

\* get_decision(2) on a character whose raw mapping lists the keys x, 2, 1
\* has returned the decision under key 1
C37_Witness ==
  /\ ret.op = "get_decision"
  /\ ret.number = 2
  /\ "a" \in DOMAIN loader.characters
  /\ Len(loader.characters["a"].decisions) = 3
  /\ loader.characters["a"].decisions[1][1] = "x"
  /\ loader.characters["a"].decisions[2][1] = "2"
  /\ loader.characters["a"].decisions[3][1] = "1"
  /\ ret.decision # <<>>
  /\ ret.decision[1].context = "1"

(* ------------------ GameSession.make_decision called ------------------ *)

\* GameSession.make_decision(decision_number, choice) on a live session, with
\* the number the session is at, the one before or the one after
SessionDecision(session_id, decision_number, choice) ==
  /\ session_id \in DOMAIN active_sessions
  /\ LET s == active_sessions[session_id]
         r == SessionMakeDecision(s, decision_number, choice, now)
     IN /\ s.current_decision
             <= get_total_decisions(s.character) + MaxExtraAnswers
        /\ decision_number \in (s.current_decision - 1)..(s.current_decision + 1)
        /\ active_sessions' = [active_sessions EXCEPT ![session_id] = r.session]
        /\ ret' = Ret("direct", session_id, TRUE, r.score, FALSE, World)
  /\ UNCHANGED <<user_sessions, next_session_id, db_available, db_users,
                 db_games, db_decisions, db_sessions, db_feedback,
                 complete_calls, now, loader, pending>>

NextSession ==
  \/ \E c \in DOMAIN Characters : StartSession(AnalysisUser, c)
  \/ \E sid \in SessionIds, ch \in AnalysisChoices :
       \E n \in 0..(MaxDecisionIndex + MaxExtraAnswers + 2) :
         SessionDecision(sid, n, ch)

SpecSession == Init /\ [][NextSession]_vars

RECURSIVE SumChoiceScores(_, _)
\* the sum, over a set of decision numbers, of the character's score for the
\* choice that the session recorded under the number
SumChoiceScores(s, numbers) ==
  IF numbers = {} THEN 0
  ELSE LET n == CHOOSE x \in numbers : TRUE
       IN get_choice_score(s.character, n, s.decisions_made[n])
          + SumChoiceScores(s, numbers \ {n})

\* C38: in every session, decisions_made has exactly the keys
\* 1 .. current_decision - 1, and total_score is the sum over those keys of
\* the character's score for the recorded choice.
C38_DecisionsMadeContiguous ==
  \A sid \in Live :
    LET s == active_sessions[sid] IN
      /\ DOMAIN s.decisions_made = 1..(s.current_decision - 1)
      /\ s.total_score = SumChoiceScores(s, DOMAIN s.decisions_made)

\* a session of alice has accepted two calls of make_decision: it holds
\* both choices and the sum of their scores
C38_Witness ==
  /\ ret.op = "direct"
  /\ ret.sid \in Live
  /\ active_sessions[ret.sid].character = "alice"
  /\ active_sessions[ret.sid].current_decision = 3
  /\ active_sessions[ret.sid].decisions_made = (1 :> "a") @@ (2 :> "b")
  /\ active_sessions[ret.sid].total_score = 30

\* C39: the two lookup tables agree: every entry of user_sessions points to
\* a live session that the user owns, and every live session is the one
\* that user_sessions holds for its owner.
C39_TablesMutuallyConsistent ==
  /\ \A u \in DOMAIN user_sessions :
       /\ user_sessions[u] \in Live
       /\ active_sessions[user_sessions[u]].user_id = u
  /\ \A sid \in Live :
       /\ active_sessions[sid].user_id \in DOMAIN user_sessions
       /\ user_sessions[active_sessions[sid].user_id] = sid

\* an end or a sweep has removed the session of one user while another user
\* still has a session
C39_Witness ==
  /\ ret.op \in {"end", "sweep"}
  /\ ret.removed # {}
  /\ Live # {}
  /\ Cardinality(DOMAIN user_sessions) = 1
  /\ next_session_id = 3

\* C40: make_decision passes current_decision - 1, which the session
\* rejects, so a session that only the handlers act on stays as it was
\* created: current_decision = 1, total_score = 0, no decisions_made, its
\* first last_activity, not completed; and every durable decision row has
\* decision number 0 and score 0.
C40_HandlersNeverAdvanceASession ==
  /\ [](/\ \A sid \in Live :
             LET s == active_sessions[sid] IN
               /\ s.current_decision = 1
               /\ s.total_score = 0
               /\ s.decisions_made = <<>>
               /\ ~is_completed(s)
        /\ \A row \in BagToSet(db_decisions) :
             row.decision_number = 0 /\ row.score = 0)
  /\ [][ /\ \A sid \in Live \cap DOMAIN active_sessions' :
              active_sessions'[sid] = active_sessions[sid]
         /\ ret'.op = "start" /\ ret'.ok
            => active_sessions'[ret'.sid].last_activity = now
         /\ ret'.op = "advance" => ~ret'.completed /\ ret'.score = 0 ]_vars

\* make_decision has acted on a live session 300 seconds after its start and
\* written a row; the session is as it was created
C40_Witness ==
  /\ ret.op = "advance"
  /\ ret.ok
  /\ ret.sid \in Live
  /\ now = 300
  /\ active_sessions[ret.sid].last_activity = 0
  /\ active_sessions[ret.sid].current_decision = 1
  /\ \E row \in BagToSet(db_decisions) :
       /\ row.game_id = active_sessions[ret.sid].game_id
       /\ row.decision_number = 0
       /\ row.choice_made = "a"

====
